---------------------------- MODULE Spec2Model ----------------------------
(***************************************************************************)
(* Model of the exchange REST clients of bot/services/api (BingXClient,    *)
(* BitgetClient, BybitClient, CoinBaseClient): the rate-limited dispatcher *)
(* _make_request, the signer _generate_signature, the fetcher              *)
(* get_orderbook and the aggregator get_all_orderbooks, run on one asyncio *)
(* event loop.  One client instance; every coroutine step between two      *)
(* suspension points is one action.                                        *)
(*                                                                         *)
(* Time is an integer clock at millisecond resolution: time.time() reads   *)
(* clock, int(time.time() * 1000) is clock, rate_limit is RateLimit ms.    *)
(***************************************************************************)
EXTENDS Integers, Sequences, FiniteSets, TLC

(***************************************************************************)
(* Bounds of the model.                                                    *)
(***************************************************************************)
MaxPairs == 2        \* longest trading_pairs list handed to get_all_orderbooks
MaxConcurrent == 2   \* largest max_concurrent_requests a client is built with
RateLimit == 2       \* rate_limit of the client under study, in clock units
MaxCloses == 1       \* close_session calls made by the client's owner
MaxLevels == 2       \* a server answers limit .. limit + MaxLevels - 1 levels a side

Exchanges == {"bingx", "bitget", "bybit", "coinbase"}
Symbols == {"BTCUSDT", "ETHUSDT"}
Limits == {0, 1, 5, 51, 151}
Tasks == 1..MaxPairs
MaxClock == RateLimit * MaxPairs + 1   \* the clock stops advancing here

(***************************************************************************)
(* Credentials (dataclasses at the head of each file) and the constructor. *)
(***************************************************************************)
NoCredentials ==
    [present |-> FALSE, api_key |-> "", api_secret |-> "", api_passphrase |-> ""]
SomeCredentials ==
    [present |-> TRUE, api_key |-> "key", api_secret |-> "secret",
     api_passphrase |-> "phrase"]

ApiException(ex) ==
    CASE ex = "bingx" -> "BingXAPIException"
      [] ex = "bitget" -> "BitgetAPIException"
      [] ex = "bybit" -> "BybitAPIException"
      [] ex = "coinbase" -> "CoinBaseAPIException"

None == [kind |-> "none"]
Raise(cls, msg) == [kind |-> "raise", cls |-> cls, msg |-> msg]
Return(v) == [kind |-> "return", value |-> v]

VARIABLES
    exchange,           \* which client class the instance is
    credentials,        \* self.credentials
    max_concurrent_requests,  \* the permits the semaphore is built with
    clock,              \* time.time()
    last_request_time,  \* self._last_request_time
    semaphore,          \* free permits of self._request_semaphore
    lock,               \* task holding self._request_lock, 0 when free
    session,            \* self._session: 0 is None, else the session's id
    closed,             \* ids of the sessions whose close() has run
    created,            \* number of ClientSession objects constructed
    owner,              \* the owner's position in close_session
    closes,             \* close_session calls begun
    call,               \* the running get_all_orderbooks call
    task,               \* the fetch_single_orderbook tasks of that call
    passes,             \* number of assignments to _last_request_time so far
    probe,              \* one direct call of a method of the client, with its result
    entry               \* the entry function of client_side.py that made the client

(* what __init__ fixes for the life of the client *)
config == <<exchange, credentials, max_concurrent_requests>>

vars == <<config, clock, last_request_time, semaphore, lock,
          session, closed, created, owner, closes, call, task, passes, probe,
          entry>>

(***************************************************************************)
(* Python dicts: a sequence of <<key, value>> pairs in insertion order.    *)
(***************************************************************************)
EmptyDict == <<>>

DictKeys(d) == {d[i][1] : i \in DOMAIN d}

DictSet(d, k, v) ==
    IF k \in DictKeys(d)
    THEN [i \in DOMAIN d |-> IF d[i][1] = k THEN <<k, v>> ELSE d[i]]
    ELSE Append(d, <<k, v>>)

(***************************************************************************)
(* sorted(params.items()): the keys the clients use, ranked in the order   *)
(* Python compares them as strings; an insertion sort on that rank.        *)
(***************************************************************************)
KeyRank(k) ==
    CASE k = "category" -> 1
      [] k = "level" -> 2
      [] k = "limit" -> 3
      [] k = "signature" -> 4
      [] k = "symbol" -> 5
      [] k = "timestamp" -> 6

RECURSIVE InsertSorted(_, _)
InsertSorted(kv, s) ==
    IF s = <<>> THEN <<kv>>
    ELSE IF KeyRank(kv[1]) < KeyRank(Head(s)[1]) THEN <<kv>> \o s
    ELSE <<Head(s)>> \o InsertSorted(kv, Tail(s))

RECURSIVE SortedItems(_)
SortedItems(d) ==
    IF d = <<>> THEN <<>> ELSE InsertSorted(Head(d), SortedItems(Tail(d)))

(***************************************************************************)
(* urllib.parse.urlencode: "k=v" joined by "&".  Every key and value the   *)
(* clients pass is made of characters quote_plus leaves alone.             *)
(***************************************************************************)
RECURSIVE UrlEncode(_)
UrlEncode(items) ==
    IF items = <<>> THEN ""
    ELSE IF Len(items) = 1 THEN items[1][1] \o "=" \o items[1][2]
    ELSE items[1][1] \o "=" \o items[1][2] \o "&" \o UrlEncode(Tail(items))

(* "".join([f"{key}{value}" for key, value in sorted_params]) *)
RECURSIVE JoinKeyValue(_)
JoinKeyValue(items) ==
    IF items = <<>> THEN ""
    ELSE items[1][1] \o items[1][2] \o JoinKeyValue(Tail(items))

(* hmac.new(secret, message, sha256).hexdigest(), as a symbolic term *)
Hmac(secret, message) == "hmac-sha256(" \o secret \o ";" \o message \o ")"

(* str(int(time.time() * 1000)) *)
TimestampMs(now) == ToString(now)

(* _generate_signature signing the parameters in the order the dict holds them *)
_generate_signature_Unsorted(ex, creds, params, now) ==
    IF ~creds.present
    THEN Raise(ApiException(ex),
               <<"API credentials required for authenticated requests">>)
    ELSE IF ex = "bingx"
    THEN Return([signature |-> Hmac(creds.api_secret, UrlEncode(params)),
                 timestamp |-> ""])
    ELSE LET timestamp == TimestampMs(now)
             param_str == IF params # <<>>
                          THEN timestamp \o JoinKeyValue(params)
                          ELSE timestamp
         IN  Return([signature |-> Hmac(creds.api_secret, param_str),
                     timestamp |-> timestamp])

(* _generate_signature reading the clock again for the timestamp it returns *)
_generate_signature_Reread(ex, creds, params, now) ==
    IF ~creds.present
    THEN Raise(ApiException(ex),
               <<"API credentials required for authenticated requests">>)
    ELSE IF ex = "bingx"
    THEN Return([signature |-> Hmac(creds.api_secret,
                                     UrlEncode(SortedItems(params))),
                 timestamp |-> ""])
    ELSE LET param_str == IF params # <<>>
                          THEN TimestampMs(now) \o JoinKeyValue(SortedItems(params))
                          ELSE TimestampMs(now)
         IN  Return([signature |-> Hmac(creds.api_secret, param_str),
                     timestamp |-> TimestampMs(now + 1)])

(***************************************************************************)
(* _generate_signature.  BingX signs the url-encoded sorted parameters and *)
(* returns the signature; the other clients read the clock, sign the       *)
(* timestamp followed by the joined sorted parameters and return the pair. *)
(***************************************************************************)
_generate_signature(ex, creds, params, now) ==
    IF ~creds.present
    THEN Raise(ApiException(ex),
               <<"API credentials required for authenticated requests">>)
    ELSE IF ex = "bingx"
    THEN Return([signature |-> Hmac(creds.api_secret,
                                     UrlEncode(SortedItems(params))),
                 timestamp |-> ""])
    ELSE LET timestamp == TimestampMs(now)
             param_str == IF params # <<>>
                          THEN timestamp \o JoinKeyValue(SortedItems(params))
                          ELSE timestamp
         IN  Return([signature |-> Hmac(creds.api_secret, param_str),
                     timestamp |-> timestamp])

(***************************************************************************)
(* Optional[Dict] arguments: None, or a dict.                              *)
(***************************************************************************)
Dict(items) == [kind |-> "dict", items |-> items]

(* params or {} *)
OrEmpty(params) == IF params.kind = "none" THEN EmptyDict ELSE params.items

(* truth value of an Optional[Dict] *)
Truthy(params) == params.kind = "dict" /\ params.items # <<>>

BaseUrl(ex) ==
    CASE ex = "bingx" -> "https://open-api.bingx.com"
      [] ex = "bitget" -> "https://api.bitget.com"
      [] ex = "bybit" -> "https://api.bybit.com/v5"
      [] ex = "coinbase" -> "https://api.exchange.coinbase.com"

KeyHeader(ex) ==
    CASE ex = "bingx" -> "X-BX-APIKEY"
      [] ex = "bitget" -> "ACCESS-KEY"
      [] ex = "bybit" -> "X-BAPI-API-KEY"
      [] ex = "coinbase" -> "CB-ACCESS-KEY"

SignHeader(ex) ==
    CASE ex = "bitget" -> "ACCESS-SIGN"
      [] ex = "bybit" -> "X-BAPI-SIGN"
      [] ex = "coinbase" -> "CB-ACCESS-SIGN"

TimestampHeader(ex) ==
    CASE ex = "bitget" -> "ACCESS-TIMESTAMP"
      [] ex = "bybit" -> "X-BAPI-TIMESTAMP"
      [] ex = "coinbase" -> "X-BM-TIMESTAMP"

(***************************************************************************)
(* The headers _make_request attaches once the signer has returned.        *)
(***************************************************************************)
AuthHeaders(ex, creds, signed) ==
    IF ex = "bingx"
    THEN << <<KeyHeader(ex), creds.api_key>> >>
    ELSE LET base == << <<KeyHeader(ex), creds.api_key>>,
                        <<SignHeader(ex), signed.signature>>,
                        <<TimestampHeader(ex), signed.timestamp>> >>
         IN  IF ex = "coinbase"
             THEN Append(base, <<"CB-ACCESS-PASSPHRASE", creds.api_passphrase>>)
             ELSE base

(* StampParams writing the timestamp parameter in every client *)
StampParams_All(ex, params, now) ==
    Dict(DictSet(OrEmpty(params), "timestamp", TimestampMs(now)))

(***************************************************************************)
(* BingX only: params = {} if None, then params['timestamp'] = now in ms.  *)
(***************************************************************************)
StampParams(ex, params, now) ==
    IF ex = "bingx"
    THEN Dict(DictSet(OrEmpty(params), "timestamp", TimestampMs(now)))
    ELSE params

(* PrepareRequest calling the signer whether or not there are credentials *)
PrepareRequest_AlwaysSign(ex, creds, method, endpoint, params, now) ==
    LET stamped == StampParams(ex, params, now)
        signing == _generate_signature(ex, creds, OrEmpty(stamped), now)
        ok == signing.kind = "return"
        headers == IF ok THEN AuthHeaders(ex, creds, signing.value)
                   ELSE EmptyDict
        final == IF ex = "bingx" /\ ok
                 THEN Dict(DictSet(stamped.items, "signature",
                                   signing.value.signature))
                 ELSE stamped
        inUrl == IF ex = "bingx" THEN method = "GET"
                 ELSE method = "GET" /\ Truthy(final)
    IN  [method |-> method,
         url |-> IF inUrl
                 THEN BaseUrl(ex) \o endpoint \o "?" \o UrlEncode(final.items)
                 ELSE BaseUrl(ex) \o endpoint,
         headers |-> headers,
         query |-> IF inUrl THEN final ELSE None,
         json |-> IF inUrl THEN None ELSE final,
         nsign |-> 1,
         error |-> IF signing.kind = "raise" THEN signing ELSE None,
         caller |-> IF ex = "bingx" /\ params.kind = "dict" THEN final
                    ELSE params]

(***************************************************************************)
(* _make_request from the url to the call of session.request: the request *)
(* as it goes out.  query is the dict url-encoded into the url (None when  *)
(* none was), nsign counts the calls of the signer, error is what the      *)
(* signer raised (it is called outside the try), caller is the dict the    *)
(* caller passed as it is left: BingX writes timestamp and signature into  *)
(* that dict, the other clients only read it.                              *)
(***************************************************************************)
PrepareRequest(ex, creds, method, endpoint, params, now) ==
    LET stamped == StampParams(ex, params, now)
        signing == IF creds.present
                   THEN _generate_signature(ex, creds, OrEmpty(stamped), now)
                   ELSE None
        ok == signing.kind = "return"
        headers == IF ok THEN AuthHeaders(ex, creds, signing.value)
                   ELSE EmptyDict
        final == IF ex = "bingx" /\ ok
                 THEN Dict(DictSet(stamped.items, "signature",
                                   signing.value.signature))
                 ELSE stamped
        inUrl == IF ex = "bingx" THEN method = "GET"
                 ELSE method = "GET" /\ Truthy(final)
    IN  [method |-> method,
         url |-> IF inUrl
                 THEN BaseUrl(ex) \o endpoint \o "?" \o UrlEncode(final.items)
                 ELSE BaseUrl(ex) \o endpoint,
         headers |-> headers,
         query |-> IF inUrl THEN final ELSE None,
         json |-> IF inUrl THEN None ELSE final,
         nsign |-> IF creds.present THEN 1 ELSE 0,
         error |-> IF signing.kind = "raise" THEN signing ELSE None,
         caller |-> IF ex = "bingx" /\ params.kind = "dict" THEN final
                    ELSE params]

(***************************************************************************)
(* What the server and the transport can answer.  A body is unparsable     *)
(* (an error page, not JSON) or a JSON object, a record here.  A level is  *)
(* a <<price, quantity>> pair.                                             *)
(***************************************************************************)
Levels(n) == [i \in 1..n |-> <<100 + i, i>>]

ServerTs(n) == 1700 + n

GoodBody(ex, n) ==
    CASE ex \in {"bingx", "bitget"} ->
            [data |-> [bids |-> Levels(n), asks |-> Levels(n), ts |-> ServerTs(n)]]
      [] ex = "bybit" ->
            [retCode |-> 0, retMsg |-> "OK",
             result |-> [b |-> Levels(n), a |-> Levels(n), ts |-> ServerTs(n)]]
      [] ex = "coinbase" ->
            [bids |-> Levels(n), asks |-> Levels(n)]

ErrorBody(ex) ==
    CASE ex \in {"bingx", "bitget"} -> [code |-> 100400, msg |-> "error"]
      [] ex = "bybit" -> [retCode |-> 10001, retMsg |-> "params error"]
      [] ex = "coinbase" -> [message |-> "NotFound"]

ClientError == [kind |-> "client_error", status |-> 0, body |-> None]
Http(status, body) == [kind |-> "http", status |-> status, body |-> body]
Unparsable == [kind |-> "text"]
Json(obj) == [kind |-> "json", obj |-> obj]

Responses(ex, limit) ==
    {ClientError,
     Http(200, Unparsable),
     Http(200, Json(ErrorBody(ex))), Http(500, Json(ErrorBody(ex)))}
    \cup {Http(200, Json(GoodBody(ex, n))) : n \in limit..(limit + MaxLevels - 1)}

(* dict.get(key, default) on a JSON object *)
Get(obj, key, default) == IF key \in DOMAIN obj THEN obj[key] ELSE default

(* HandleResponse without "except Exception": a parse error goes through *)
HandleResponse_NoCatchAll(ex, resp) ==
    IF resp.kind = "client_error"
    THEN Raise(ApiException(ex), <<"Network error: ", "Cannot connect to host">>)
    ELSE IF ex = "bybit"
    THEN IF resp.body.kind # "json"
         THEN Raise(ApiException(ex),
                    <<"Network error: ", ToString(resp.status),
                      ", message='Attempt to decode JSON with unexpected mimetype'">>)
         ELSE IF resp.status # 200 \/ Get(resp.body.obj, "retCode", -1) # 0
         THEN Raise(ApiException(ex),
                    <<"API Error: ", Get(resp.body.obj, "retMsg", "Unknown error")>>)
         ELSE Return(resp.body.obj)
    ELSE IF resp.status # 200
         THEN Raise(ApiException(ex), <<"API Error: ", ToString(resp.status)>>)
         ELSE IF resp.body.kind # "json"
         THEN Raise("JSONDecodeError",
                    <<"Expecting value: line 1 column 1 (char 0)">>)
         ELSE Return(resp.body.obj)

(***************************************************************************)
(* The try block of _make_request: the exchange and the two except         *)
(* clauses.  A message is the sequence of the pieces of its f-string.      *)
(* BingX, Bitget and Coinbase read the text, test the status, then parse;  *)
(* Bybit parses with response.json() first (ContentTypeError, a            *)
(* ClientError, on a body that is not JSON), then tests status and retCode.*)
(***************************************************************************)
HandleResponse(ex, resp) ==
    IF resp.kind = "client_error"
    THEN Raise(ApiException(ex), <<"Network error: ", "Cannot connect to host">>)
    ELSE IF ex = "bybit"
    THEN IF resp.body.kind # "json"
         THEN Raise(ApiException(ex),
                    <<"Network error: ", ToString(resp.status),
                      ", message='Attempt to decode JSON with unexpected mimetype'">>)
         ELSE IF resp.status # 200 \/ Get(resp.body.obj, "retCode", -1) # 0
         THEN Raise(ApiException(ex),
                    <<"Unexpected error: ", "API Error: ",
                      Get(resp.body.obj, "retMsg", "Unknown error")>>)
         ELSE Return(resp.body.obj)
    ELSE IF resp.status # 200
         THEN Raise(ApiException(ex),
                    <<"Unexpected error: ", "API Error: ", ToString(resp.status)>>)
         ELSE IF resp.body.kind # "json"
         THEN Raise(ApiException(ex),
                    <<"Unexpected error: ", "Expecting value: line 1 column 1 (char 0)">>)
         ELSE Return(resp.body.obj)

(***************************************************************************)
(* get_orderbook: the validation of limit, the parameters, the endpoint,   *)
(* and the parsing of the response into an OrderBook.                      *)
(***************************************************************************)
(* ValidLimit with the range tests off by one: 0 and the bound + 1 pass *)
ValidLimit_OffByOne(ex, limit) ==
    CASE ex = "bingx" -> limit \in {5, 10, 20, 50, 100, 500, 1000}
      [] ex = "bybit" -> limit \in {1, 25, 50, 100, 200}
      [] ex = "bitget" -> ~(limit < 0 \/ limit > 151)
      [] ex = "coinbase" -> ~(limit < 0 \/ limit > 51)

ValidLimit(ex, limit) ==
    CASE ex = "bingx" -> limit \in {5, 10, 20, 50, 100, 500, 1000}
      [] ex = "bybit" -> limit \in {1, 25, 50, 100, 200}
      [] ex = "bitget" -> ~(limit <= 0 \/ limit > 150)
      [] ex = "coinbase" -> ~(limit <= 0 \/ limit > 50)

LimitMessage(ex) ==
    CASE ex = "bingx" -> <<"Limit must be one of: 5, 10, 20, 50, 100, 500, 1000">>
      [] ex = "bybit" -> <<"Limit must be one of: 1, 25, 50, 100, 200">>
      [] ex = "bitget" -> <<"Limit must be > 0 and <= 150">>
      [] ex = "coinbase" -> <<"Limit must be > 0 and <= 50">>

OrderbookParams(ex, symbol, limit) ==
    CASE ex \in {"bingx", "bitget"} ->
            << <<"symbol", symbol>>, <<"limit", ToString(limit)>> >>
      [] ex = "bybit" ->
            << <<"category", "spot">>, <<"symbol", symbol>>,
               <<"limit", ToString(limit)>> >>
      [] ex = "coinbase" -> << <<"level", ToString(2)>> >>

OrderbookEndpoint(ex, symbol) ==
    CASE ex = "bingx" -> "/openApi/spot/v1/market/depth"
      [] ex = "bitget" -> "/api/v2/spot/market/orderbook"
      [] ex = "bybit" -> "/market/orderbook"
      [] ex = "coinbase" -> "/products/" \o symbol \o "/book"

OrderBookLevel(raw) == [price |-> raw[1], quantity |-> raw[2]]

ParseLevels(raw) == [i \in DOMAIN raw |-> OrderBookLevel(raw[i])]

(* seq[:n] *)
Prefix(seq, n) == SubSeq(seq, 1, IF n < Len(seq) THEN n ELSE Len(seq))

KeyError(key) == Raise("KeyError", <<key>>)

ParseOrderBook(ex, symbol, limit, response, now) ==
    IF ex = "coinbase"
    THEN IF "bids" \notin DOMAIN response THEN KeyError("bids")
         ELSE IF "asks" \notin DOMAIN response THEN KeyError("asks")
         ELSE Return([symbol |-> symbol,
                      bids |-> ParseLevels(Prefix(response.bids, limit)),
                      asks |-> ParseLevels(Prefix(response.asks, limit)),
                      timestamp |-> now])
    ELSE LET top == IF ex = "bybit" THEN "result" ELSE "data"
             bidsKey == IF ex = "bybit" THEN "b" ELSE "bids"
             asksKey == IF ex = "bybit" THEN "a" ELSE "asks"
         IN  IF top \notin DOMAIN response THEN KeyError(top)
             ELSE LET data == response[top]
                  IN  IF bidsKey \notin DOMAIN data THEN KeyError(bidsKey)
                      ELSE IF asksKey \notin DOMAIN data THEN KeyError(asksKey)
                      ELSE IF "ts" \notin DOMAIN data THEN KeyError("ts")
                      ELSE Return([symbol |-> symbol,
                                   bids |-> ParseLevels(data[bidsKey]),
                                   asks |-> ParseLevels(data[asksKey]),
                                   timestamp |-> data.ts])

(***************************************************************************)
(* get_trading_pairs.  A listed pair is a JSON object (a record) with the  *)
(* symbol under "symbol" ("id" for Coinbase) and, when it has one, a       *)
(* status: an integer or a string, each under its own tag.  BingX tests    *)
(* pair.get('status') == 1; the other clients test pair['status'].lower()  *)
(* against "online" (Bitget, Coinbase) or "trading" (Bybit).               *)
(***************************************************************************)
Number(n) == [int |-> n]
String(x) == [str |-> x]
IsString(v) == "str" \in DOMAIN v

(* str.lower() on the status strings exchanges use *)
Lower(x) ==
    CASE x = "Online" -> "online"
      [] x = "Trading" -> "trading"
      [] OTHER -> x

ActiveSentinel(ex) ==
    CASE ex = "bingx" -> Number(1)
      [] ex \in {"bitget", "coinbase"} -> String("online")
      [] ex = "bybit" -> String("trading")

SymbolKey(ex) == IF ex = "coinbase" THEN "id" ELSE "symbol"

TradingPair(symbol) == [symbol |-> symbol]

(* the test of one pair: TRUE, FALSE, or the exception it raises *)
IsActive(ex, pair) ==
    IF ex = "bingx"
    THEN Return("status" \in DOMAIN pair /\ pair.status = ActiveSentinel(ex))
    ELSE IF "status" \notin DOMAIN pair THEN KeyError("status")
    ELSE IF ~IsString(pair.status)
    THEN Raise("AttributeError",
               <<"'int' object has no attribute 'lower'">>)
    ELSE Return(Lower(pair.status.str) = ActiveSentinel(ex).str)

(* the loop over the listing, trading_pairs being the list built so far *)
RECURSIVE FilterPairs(_, _, _)
FilterPairs(ex, listing, trading_pairs) ==
    IF listing = <<>> THEN Return(trading_pairs)
    ELSE LET pair == Head(listing)
             active == IsActive(ex, pair)
         IN  IF active.kind = "raise" THEN active
             ELSE IF active.value
             THEN FilterPairs(ex, Tail(listing),
                              Append(trading_pairs,
                                     TradingPair(pair[SymbolKey(ex)])))
             ELSE FilterPairs(ex, Tail(listing), trading_pairs)

(* where the listing is in what _make_request returned *)
ListingOf(ex, response) ==
    CASE ex = "bingx" ->
            IF "data" \notin DOMAIN response THEN KeyError("data")
            ELSE IF "symbols" \notin DOMAIN response.data THEN KeyError("symbols")
            ELSE Return(response.data.symbols)
      [] ex = "bitget" ->
            IF "data" \notin DOMAIN response THEN KeyError("data")
            ELSE Return(response.data)
      [] ex = "bybit" ->
            IF "result" \notin DOMAIN response THEN KeyError("result")
            ELSE IF "list" \notin DOMAIN response.result THEN KeyError("list")
            ELSE Return(response.result.list)
      [] ex = "coinbase" -> Return(response)

ParseTradingPairs(ex, response) ==
    LET listing == ListingOf(ex, response)
    IN  IF listing.kind = "raise" THEN listing
        ELSE FilterPairs(ex, listing.value, <<>>)

(* the body of a symbol-listing response *)
ListingBody(ex, listing) ==
    CASE ex = "bingx" -> [code |-> 0, data |-> [symbols |-> listing]]
      [] ex = "bitget" -> [code |-> "00000", data |-> listing]
      [] ex = "bybit" ->
            [retCode |-> 0, retMsg |-> "OK", result |-> [list |-> listing]]
      [] ex = "coinbase" -> listing

(***************************************************************************)
(* The state after construction (__init__).  The inputs of a run: which    *)
(* client, with or without credentials, and what the clock reads (0, as    *)
(* _last_request_time does, or later).                                     *)
(***************************************************************************)
(* a task: where it is, when its sleep ends, the request in flight, the     *)
(* response it got, how get_orderbook ended, and how many times it has     *)
(* called _make_request (calls) and session.request (sends)                *)
IdleTask ==
    [pc |-> "unused", wake |-> 0, req |-> None, resp |-> None, res |-> None,
     calls |-> 0, sends |-> 0]

NoProbe == [op |-> "none"]

(* an entry function: where it is, the pairs get_trading_pairs gave it,    *)
(* the exception that reached its try block, how it ended and what         *)
(* _session was as it ended                                                *)
NoEntry == [pc |-> "idle", pairs |-> <<>>, raised |-> None, out |-> None,
            session |-> -1]

IdleCall == [pc |-> "idle", pairs |-> <<>>, limit |-> 0, t0 |-> 0, result |-> None]

Init ==
    /\ exchange \in Exchanges
    /\ credentials \in {NoCredentials, SomeCredentials}
    /\ clock \in {0, RateLimit}
    /\ last_request_time = 0
    /\ max_concurrent_requests \in 1..MaxConcurrent
    /\ semaphore = max_concurrent_requests
    /\ lock = 0
    /\ session = 0
    /\ closed = {}
    /\ created = 0
    /\ owner = "idle"
    /\ closes = 0
    /\ call = IdleCall
    /\ task = [t \in Tasks |-> IdleTask]
    /\ passes = 0
    /\ probe = NoProbe
    /\ entry = NoEntry

(* The lists of pairs a call is made with: up to MaxPairs symbols, repeats *)
(* allowed; which symbol comes first makes no difference to the client.    *)
PairLists ==
    {pairs \in UNION {[1..n -> Symbols] : n \in 0..MaxPairs} :
        pairs # <<>> => pairs[1] = "BTCUSDT"}

Launched == 1..Len(call.pairs)

(***************************************************************************)
(* get_all_orderbooks up to its await: one fetch_single_orderbook task per *)
(* pair is handed to asyncio.gather.                                       *)
(***************************************************************************)
get_all_orderbooks(trading_pairs, limit) ==
    /\ call.pc = "idle"
    /\ call' = [pc |-> "gathering", pairs |-> trading_pairs, limit |-> limit,
                t0 |-> clock, result |-> None]
    /\ task' = [t \in Tasks |->
                  IF t <= Len(trading_pairs) THEN [IdleTask EXCEPT !.pc = "start"]
                  ELSE IdleTask]
    /\ UNCHANGED <<config, probe, entry, clock, last_request_time, semaphore, lock,
                   session, closed, created, owner, closes, passes>>

(***************************************************************************)
(* get_orderbook up to the semaphore: an invalid limit raises at once.     *)
(***************************************************************************)
get_orderbook(t) ==
    /\ task[t].pc = "start"
    /\ task' = [task EXCEPT ![t] =
                  IF ValidLimit(exchange, call.limit)
                  THEN [@ EXCEPT !.pc = "semaphore", !.calls = @ + 1]
                  ELSE [@ EXCEPT !.pc = "done",
                                 !.res = Raise(ApiException(exchange),
                                               LimitMessage(exchange))]]
    /\ UNCHANGED <<config, probe, entry, clock, last_request_time, semaphore, lock,
                   session, closed, created, owner, closes, call, passes>>

(***************************************************************************)
(* What a suspended coroutine waits for: a free permit of the semaphore,   *)
(* the lock, the end of its sleep.                                         *)
(***************************************************************************)
SemaphoreFree == semaphore > 0

(* the lock counted free only while a permit is free as well *)
LockFree_NeedsPermit == lock = 0 /\ semaphore > 0

LockFree == lock = 0

SleepOver(t) == clock >= task[t].wake

(* AcquireSemaphore entered without waiting for a free permit *)
AcquireSemaphore_NoWait(t) ==
    /\ task[t].pc = "semaphore"
    /\ semaphore' = semaphore - 1
    /\ task' = [task EXCEPT ![t].pc = "lock"]
    /\ UNCHANGED <<config, probe, entry, clock, last_request_time, lock, session, closed,
                   created, owner, closes, call, passes>>

(* async with self._request_semaphore *)
AcquireSemaphore(t) ==
    /\ task[t].pc = "semaphore"
    /\ SemaphoreFree
    /\ semaphore' = semaphore - 1
    /\ task' = [task EXCEPT ![t].pc = "lock"]
    /\ UNCHANGED <<config, probe, entry, clock, last_request_time, lock, session, closed,
                   created, owner, closes, call, passes>>

(* PassGate creating a session for every request, whatever _session is *)
PassGate_AlwaysCreate(t) ==
    LET sid == created + 1
        req == PrepareRequest(exchange, credentials, "GET",
                              OrderbookEndpoint(exchange, call.pairs[t]),
                              Dict(OrderbookParams(exchange, call.pairs[t],
                                                   call.limit)),
                              clock)
        sent == [kind |-> "request", sid |-> sid, http |-> req]
    IN  /\ last_request_time' = clock
        /\ passes' = passes + 1
        /\ lock' = 0
        /\ session' = sid
        /\ created' = created + 1
        /\ IF req.error # None
           THEN /\ task' = [task EXCEPT ![t] =
                              [@ EXCEPT !.pc = "done", !.wake = 0,
                                        !.res = req.error]]
                /\ semaphore' = semaphore + 1
           ELSE IF sid \in closed
           THEN /\ task' = [task EXCEPT ![t] =
                              [@ EXCEPT !.pc = "done", !.wake = 0,
                                        !.res = Raise(ApiException(exchange),
                                                      <<"Unexpected error: ",
                                                        "Session is closed">>)]]
                /\ semaphore' = semaphore + 1
           ELSE /\ task' = [task EXCEPT ![t] =
                              [@ EXCEPT !.pc = "http", !.wake = 0, !.req = sent,
                                        !.sends = @ + 1]]
                /\ UNCHANGED semaphore
        /\ UNCHANGED <<config, probe, entry, clock, closed, owner, closes, call>>

(* PassGate keeping _request_lock through the HTTP exchange *)
PassGate_KeepLock(t) ==
    LET sid == IF session = 0 THEN created + 1 ELSE session
        req == PrepareRequest(exchange, credentials, "GET",
                              OrderbookEndpoint(exchange, call.pairs[t]),
                              Dict(OrderbookParams(exchange, call.pairs[t],
                                                   call.limit)),
                              clock)
        sent == [kind |-> "request", sid |-> sid, http |-> req]
    IN  /\ last_request_time' = clock
        /\ passes' = passes + 1
        /\ lock' = t
        /\ session' = sid
        /\ created' = IF session = 0 THEN created + 1 ELSE created
        /\ IF req.error # None
           THEN /\ task' = [task EXCEPT ![t] =
                              [@ EXCEPT !.pc = "done", !.wake = 0,
                                        !.res = req.error]]
                /\ semaphore' = semaphore + 1
           ELSE IF sid \in closed
           THEN /\ task' = [task EXCEPT ![t] =
                              [@ EXCEPT !.pc = "done", !.wake = 0,
                                        !.res = Raise(ApiException(exchange),
                                                      <<"Unexpected error: ",
                                                        "Session is closed">>)]]
                /\ semaphore' = semaphore + 1
           ELSE /\ task' = [task EXCEPT ![t] =
                              [@ EXCEPT !.pc = "http", !.wake = 0, !.req = sent,
                                        !.sends = @ + 1]]
                /\ UNCHANGED semaphore
        /\ UNCHANGED <<config, probe, entry, clock, closed, owner, closes, call>>

(* PassGate without "if not self._session: await self.create_session()" *)
PassGate_NoCreate(t) ==
    LET req == PrepareRequest(exchange, credentials, "GET",
                              OrderbookEndpoint(exchange, call.pairs[t]),
                              Dict(OrderbookParams(exchange, call.pairs[t],
                                                   call.limit)),
                              clock)
        sent == [kind |-> "request", sid |-> session, http |-> req]
    IN  /\ last_request_time' = clock
        /\ passes' = passes + 1
        /\ lock' = 0
        /\ task' = [task EXCEPT ![t] =
                      [@ EXCEPT !.pc = "http", !.wake = 0, !.req = sent,
                                !.sends = @ + 1]]
        /\ UNCHANGED <<config, probe, entry, clock, semaphore, session, created, closed,
                       owner, closes, call>>

(***************************************************************************)
(* From self._last_request_time = time.time() to the call of               *)
(* session.request: the lock is released, the session created if there is  *)
(* none, the request signed and handed to the session.  A session whose    *)
(* close() has run refuses the request (RuntimeError, inside the try).     *)
(***************************************************************************)
PassGate(t) ==
    LET sid == IF session = 0 THEN created + 1 ELSE session
        req == PrepareRequest(exchange, credentials, "GET",
                              OrderbookEndpoint(exchange, call.pairs[t]),
                              Dict(OrderbookParams(exchange, call.pairs[t],
                                                   call.limit)),
                              clock)
        sent == [kind |-> "request", sid |-> sid, http |-> req]
    IN  /\ last_request_time' = clock
        /\ passes' = passes + 1
        /\ lock' = 0
        /\ session' = sid
        /\ created' = IF session = 0 THEN created + 1 ELSE created
        /\ IF req.error # None
           THEN /\ task' = [task EXCEPT ![t] =
                              [@ EXCEPT !.pc = "done", !.wake = 0,
                                        !.res = req.error]]
                /\ semaphore' = semaphore + 1
           ELSE IF sid \in closed
           THEN /\ task' = [task EXCEPT ![t] =
                              [@ EXCEPT !.pc = "done", !.wake = 0,
                                        !.res = Raise(ApiException(exchange),
                                                      <<"Unexpected error: ",
                                                        "Session is closed">>)]]
                /\ semaphore' = semaphore + 1
           ELSE /\ task' = [task EXCEPT ![t] =
                              [@ EXCEPT !.pc = "http", !.wake = 0, !.req = sent,
                                        !.sends = @ + 1]]
                /\ UNCHANGED semaphore
        /\ UNCHANGED <<config, probe, entry, clock, closed, owner, closes, call>>

(* AcquireLock entered whether or not the lock is free *)
AcquireLock_NoMutex(t) ==
    /\ task[t].pc = "lock"
    /\ LET current_time == clock
           time_since_last_request == current_time - last_request_time
       IN  IF time_since_last_request < RateLimit
           THEN /\ lock' = t
                /\ task' = [task EXCEPT ![t] =
                              [@ EXCEPT !.pc = "sleep",
                                        !.wake = current_time
                                                 + (RateLimit - time_since_last_request)]]
                /\ UNCHANGED <<config, probe, entry, clock, last_request_time, semaphore,
                               session, closed, created, owner, closes, call,
                               passes>>
           ELSE PassGate(t)

(* AcquireLock with the sleep left out: the timestamp is written at once *)
AcquireLock_NoSleep(t) ==
    /\ task[t].pc = "lock"
    /\ lock = 0
    /\ PassGate(t)

(* AcquireLock sleeping one clock unit less than what is left of rate_limit *)
AcquireLock_ShortSleep(t) ==
    /\ task[t].pc = "lock"
    /\ lock = 0
    /\ LET current_time == clock
           time_since_last_request == current_time - last_request_time
       IN  IF time_since_last_request < RateLimit - 1
           THEN /\ lock' = t
                /\ task' = [task EXCEPT ![t] =
                              [@ EXCEPT !.pc = "sleep",
                                        !.wake = current_time
                                                 + (RateLimit - 1 - time_since_last_request)]]
                /\ UNCHANGED <<config, probe, entry, clock, last_request_time, semaphore,
                               session, closed, created, owner, closes, call,
                               passes>>
           ELSE PassGate(t)

(***************************************************************************)
(* async with self._request_lock: read the clock; sleep for what is left   *)
(* of rate_limit, holding the lock, or pass at once.                       *)
(***************************************************************************)
AcquireLock(t) ==
    /\ task[t].pc = "lock"
    /\ LockFree
    /\ LET current_time == clock
           time_since_last_request == current_time - last_request_time
       IN  IF time_since_last_request < RateLimit
           THEN /\ lock' = t
                /\ task' = [task EXCEPT ![t] =
                              [@ EXCEPT !.pc = "sleep",
                                        !.wake = current_time
                                                 + (RateLimit - time_since_last_request)]]
                /\ UNCHANGED <<config, probe, entry, clock, last_request_time, semaphore,
                               session, closed, created, owner, closes, call,
                               passes>>
           ELSE PassGate(t)

(* asyncio.sleep(d) returns once at least d has passed *)
Wake(t) ==
    /\ task[t].pc = "sleep"
    /\ SleepOver(t)
    /\ PassGate(t)

(* Respond keeping the permit when the exchange has failed *)
Respond_NoRelease(t, resp) ==
    /\ task[t].pc = "http"
    /\ LET made == HandleResponse(exchange, resp)
           res == IF made.kind = "raise" THEN made
                  ELSE ParseOrderBook(exchange, call.pairs[t], call.limit,
                                      made.value, clock)
       IN  /\ task' = [task EXCEPT ![t] =
                         [@ EXCEPT !.pc = "done", !.req = None, !.resp = resp,
                                   !.res = res]]
           /\ semaphore' = IF made.kind = "raise" THEN semaphore
                           ELSE semaphore + 1
    /\ UNCHANGED <<config, probe, entry, clock, last_request_time, lock, session,
                   closed, created, owner, closes, call, passes>>

(* Respond sending the request again when the exchange has failed: the     *)
(* task keeps its permit and goes back to the rate limiter                 *)
Respond_Retry(t, resp) ==
    /\ task[t].pc = "http"
    /\ LET made == HandleResponse(exchange, resp)
       IN  IF made.kind = "raise"
           THEN /\ task' = [task EXCEPT ![t] =
                              [@ EXCEPT !.pc = "lock", !.req = None]]
                /\ UNCHANGED semaphore
           ELSE /\ task' = [task EXCEPT ![t] =
                              [@ EXCEPT !.pc = "done", !.req = None,
                                        !.resp = resp,
                                        !.res = ParseOrderBook(
                                                   exchange, call.pairs[t],
                                                   call.limit, made.value, clock)]]
                /\ semaphore' = semaphore + 1
    /\ UNCHANGED <<config, probe, entry, clock, last_request_time, lock, session, closed,
                   created, owner, closes, call, passes>>

(***************************************************************************)
(* The exchange ends: the transport fails or the server answers.  The      *)
(* semaphore is released on the way out of _make_request and get_orderbook *)
(* goes on, without suspending, to parse what _make_request returned.      *)
(***************************************************************************)
Respond(t, resp) ==
    /\ task[t].pc = "http"
    /\ LET made == HandleResponse(exchange, resp)
           res == IF made.kind = "raise" THEN made
                  ELSE ParseOrderBook(exchange, call.pairs[t], call.limit,
                                      made.value, clock)
       IN  task' = [task EXCEPT ![t] =
                      [@ EXCEPT !.pc = "done", !.req = None, !.resp = resp,
                                !.res = res]]
    /\ semaphore' = semaphore + 1
    /\ UNCHANGED <<config, probe, entry, clock, last_request_time, lock, session, closed,
                   created, owner, closes, call, passes>>

(* fetch_single_orderbook without its except clause *)
fetch_single_orderbook_NoCatch(ex, symbol, res) ==
    IF res.kind = "return"
    THEN Return(<<symbol, [kind |-> "some", value |-> res.value]>>)
    ELSE res

(***************************************************************************)
(* fetch_single_orderbook: the (symbol, orderbook) pair, (symbol, None)    *)
(* for the client's own exception, any other exception passed on.          *)
(***************************************************************************)
Some(v) == [kind |-> "some", value |-> v]

(* fetch_single_orderbook with "except Exception" for its except clause *)
fetch_single_orderbook_CatchAll(ex, symbol, res) ==
    IF res.kind = "return" THEN Return(<<symbol, Some(res.value)>>)
    ELSE Return(<<symbol, None>>)

fetch_single_orderbook(ex, symbol, res) ==
    IF res.kind = "return" THEN Return(<<symbol, Some(res.value)>>)
    ELSE IF res.cls = ApiException(ex) THEN Return(<<symbol, None>>)
    ELSE res

Fetched(t) == fetch_single_orderbook(exchange, call.pairs[t], task[t].res)

(* ResultMapping keeping the first book of a symbol instead of the last *)
ResultMapping_KeepFirst(results) ==
    LET kept == {i \in DOMAIN results : results[i][2].kind = "some"}
        first(sym) == CHOOSE i \in kept :
                         /\ results[i][1] = sym
                         /\ \A j \in kept : results[j][1] = sym => i <= j
    IN  [sym \in {results[i][1] : i \in kept} |-> results[first(sym)][2].value]

(* {symbol: ob for symbol, ob in results if ob is not None} *)
ResultMapping(results) ==
    LET kept == {i \in DOMAIN results : results[i][2].kind = "some"}
        last(sym) == CHOOSE i \in kept :
                        /\ results[i][1] = sym
                        /\ \A j \in kept : results[j][1] = sym => j <= i
    IN  [sym \in {results[i][1] : i \in kept} |-> results[last(sym)][2].value]

(***************************************************************************)
(* await asyncio.gather: the results in task order once every task        *)
(* has returned; the first exception a task raises, as soon as it does,    *)
(* the other tasks left running.                                           *)
(***************************************************************************)
GatherReturn ==
    /\ call.pc = "gathering"
    /\ \A t \in Launched : task[t].pc = "done" /\ Fetched(t).kind = "return"
    /\ call' = [call EXCEPT !.pc = "returned",
                            !.result = Return(ResultMapping(
                                [t \in Launched |-> Fetched(t).value]))]
    /\ UNCHANGED <<config, probe, entry, clock, last_request_time, semaphore, lock,
                   session, closed, created, owner, closes, task, passes>>

GatherRaise(t) ==
    /\ call.pc = "gathering"
    /\ t \in Launched
    /\ task[t].pc = "done"
    /\ Fetched(t).kind = "raise"
    /\ call' = [call EXCEPT !.pc = "raised", !.result = Fetched(t)]
    /\ UNCHANGED <<config, probe, entry, clock, last_request_time, semaphore, lock,
                   session, closed, created, owner, closes, task, passes>>

(***************************************************************************)
(* The client's owner: create_session, and close_session in its two steps  *)
(* around await self._session.close().                                     *)
(***************************************************************************)
create_session ==
    /\ owner = "idle"
    /\ session = 0
    /\ session' = created + 1
    /\ created' = created + 1
    /\ UNCHANGED <<config, probe, entry, clock, last_request_time, semaphore, lock, closed,
                   owner, closes, call, task, passes>>

close_session_begin ==
    /\ owner = "idle"
    /\ session # 0
    /\ closes < MaxCloses
    /\ closed' = closed \cup {session}
    /\ owner' = "closing"
    /\ closes' = closes + 1
    /\ UNCHANGED <<config, probe, entry, clock, last_request_time, semaphore, lock,
                   session, created, call, task, passes>>

close_session_end ==
    /\ owner = "closing"
    /\ session' = 0
    /\ owner' = "idle"
    /\ UNCHANGED <<config, probe, entry, clock, last_request_time, semaphore, lock, closed,
                   created, closes, call, task, passes>>

(* time passes; it is counted from the call of get_all_orderbooks, up to   *)
(* MaxClock and for as long as a sleep has not reached its end             *)
Tick ==
    /\ call.pc # "idle"
    /\ \/ clock < MaxClock
       \/ \E t \in Tasks : task[t].pc = "sleep" /\ clock < task[t].wake
    /\ clock' = clock + 1
    /\ UNCHANGED <<config, probe, entry, last_request_time, semaphore, lock, session,
                   closed, created, owner, closes, call, task, passes>>

Next ==
    \/ \E trading_pairs \in PairLists, limit \in Limits :
          get_all_orderbooks(trading_pairs, limit)
    \/ \E t \in Tasks : get_orderbook(t)
    \/ \E t \in Tasks : AcquireSemaphore(t)
    \/ \E t \in Tasks : AcquireLock(t)
    \/ \E t \in Tasks : Wake(t)
    \/ \E t \in Tasks : \E resp \in Responses(exchange, call.limit) : Respond(t, resp)
    \/ GatherReturn
    \/ \E t \in Tasks : GatherRaise(t)
    \/ create_session
    \/ close_session_begin
    \/ close_session_end
    \/ Tick

Spec == Init /\ [][Next]_vars

(***************************************************************************)
(* The same under fair scheduling: the event loop keeps running the        *)
(* coroutines that are ready, time passes, and every HTTP exchange is      *)
(* answered or fails.  The caller and the owner are under no obligation.   *)
(***************************************************************************)
(* a step of the event loop: one coroutine of the call that is ready runs *)
(* to its next suspension                                                  *)
Run ==
    \/ \E t \in Tasks : get_orderbook(t)
    \/ \E t \in Tasks : AcquireSemaphore(t)
    \/ \E t \in Tasks : AcquireLock(t)
    \/ \E t \in Tasks : Wake(t)
    \/ \E t \in Tasks : \E resp \in Responses(exchange, call.limit) : Respond(t, resp)
    \/ GatherReturn
    \/ \E t \in Tasks : GatherRaise(t)

(* ENABLED <<Run>>_vars, from the guards of the actions of Run *)
RunEnabled ==
    \/ \E t \in Tasks :
          \/ task[t].pc = "start"
          \/ task[t].pc = "semaphore" /\ SemaphoreFree
          \/ task[t].pc = "lock" /\ LockFree
          \/ task[t].pc = "sleep" /\ SleepOver(t)
          \/ task[t].pc = "http"
    \/ /\ call.pc = "gathering"
       /\ \/ \A t \in Launched :
                task[t].pc = "done" /\ Fetched(t).kind = "return"
          \/ \E t \in Launched :
                task[t].pc = "done" /\ Fetched(t).kind = "raise"

(* <<Run>>_vars: the steps of a call under way that move a task or the call *)
RunStep == call.pc # "idle" /\ (task' # task \/ call' # call)

(* WF_vars(Run), written with RunEnabled and RunStep, and WF_vars(Tick) *)
FairSpec ==
    /\ Spec
    /\ ([]<>(~RunEnabled) \/ []<><<RunStep>>_vars)
    /\ WF_vars(Tick)

(***************************************************************************)
(* The methods of a client called directly, one call on a client just      *)
(* built, to study what each computes from its arguments.                  *)
(***************************************************************************)
Methods == {"GET", "POST"}

ParamChoices ==
    {None, Dict(EmptyDict),
     Dict(<< <<"symbol", "BTCUSDT">> >>),
     Dict(<< <<"symbol", "ETHUSDT">>, <<"limit", "5">> >>),
     Dict(<< <<"category", "spot">> >>)}

(* _make_request(method, endpoint, params) as far as the request it hands *)
(* to the session                                                          *)
_make_request(method, endpoint, params) ==
    /\ probe = NoProbe
    /\ probe' = [op |-> "_make_request", method |-> method, params |-> params,
                 out |-> PrepareRequest(exchange, credentials, method,
                                        endpoint, params, clock)]
    /\ UNCHANGED <<config, entry, clock, last_request_time, semaphore, lock, session,
                   closed, created, owner, closes, call, task, passes>>

(* the dicts handed to the signer; two of them hold the same entries in a *)
(* different insertion order                                               *)
SignerParams ==
    {EmptyDict,
     << <<"symbol", "BTCUSDT">> >>,
     << <<"symbol", "ETHUSDT">> >>,
     << <<"symbol", "BTCUSDT">>, <<"limit", "5">> >>,
     << <<"limit", "5">>, <<"symbol", "BTCUSDT">> >>,
     << <<"symbol", "BTCUSDT">>, <<"limit", "10">> >>}

(* _generate_signature called twice: on params, then on other, at once or *)
(* one clock unit later                                                    *)
generate_signature_twice(params, other, later) ==
    /\ probe = NoProbe
    /\ probe' = [op |-> "_generate_signature",
                 params |-> <<params, other>>,
                 now |-> <<clock, clock + later>>,
                 out |-> <<_generate_signature(exchange, credentials, params,
                                               clock),
                           _generate_signature(exchange, credentials, other,
                                               clock + later)>>]
    /\ UNCHANGED <<config, entry, clock, last_request_time, semaphore, lock, session,
                   closed, created, owner, closes, call, task, passes>>

(* the statuses a listed pair can carry, and the listings a server sends *)
Statuses ==
    {Number(1), Number(0), String("online"), String("Online"), String("offline"),
     String("trading"), String("Trading")}

ListedPairs(ex) ==
    LET named(sym) == IF ex = "coinbase" THEN [id |-> sym]
                      ELSE [symbol |-> sym]
        with(sym, st) == IF ex = "coinbase" THEN [id |-> sym, status |-> st]
                         ELSE [symbol |-> sym, status |-> st]
    IN  {named(sym) : sym \in Symbols}
        \cup {with(sym, st) : sym \in Symbols, st \in Statuses}

Listings(ex) == UNION {[1..n -> ListedPairs(ex)] : n \in 0..MaxPairs}

(* get_trading_pairs from what its _make_request call returned *)
get_trading_pairs(listing) ==
    /\ probe = NoProbe
    /\ probe' = [op |-> "get_trading_pairs", listing |-> listing,
                 out |-> ParseTradingPairs(exchange,
                                           ListingBody(exchange, listing))]
    /\ UNCHANGED <<config, entry, clock, last_request_time, semaphore, lock, session,
                   closed, created, owner, closes, call, task, passes>>

FunctionNext ==
    \/ \E listing \in Listings(exchange) : get_trading_pairs(listing)
    \/ \E params, other \in SignerParams, later \in {0, 1} :
          generate_signature_twice(params, other, later)
    \/ \E method \in Methods, params \in ParamChoices :
          _make_request(method, "/market/time", params)

FunctionSpec == Init /\ [][FunctionNext]_vars

(***************************************************************************)
(* The entry functions of client_side.py, get_<exchange>():                *)
(*     async with Client() as client:                                      *)
(*         try:     trading_pairs = await client.get_trading_pairs()       *)
(*                  order_books = await client.get_all_orderbooks(...)     *)
(*         except <class> as e:  print(...)                                *)
(* The client is the function's own, built with the defaults: nobody else  *)
(* opens or closes its session.                                            *)
(***************************************************************************)
(* the class named by the except clause of get_<ex> *)
Handled(ex) ==
    IF ex = "coinbase" THEN "BitMartAPIException" ELSE ApiException(ex)

(* how the try statement ends when exc is raised inside it: the handler    *)
(* prints and the function goes on to return None, or exc goes through     *)
ExceptClause(ex, exc) ==
    IF exc.cls = Handled(ex) THEN Return(None) ELSE exc

(* what the function hands to its caller after a call that returned *)
Returned(ex, order_books) ==
    IF ex = "coinbase" THEN Return(None) ELSE Return(order_books)

(* get_all_orderbooks(trading_pairs) is called without a limit *)
DefaultLimit(ex) == IF ex = "bybit" THEN 1 ELSE 5

(* how the request for the listing can fail; coinbase's listing is a JSON  *)
(* array, and an error object in its place is left out                     *)
ListingFailures(ex) ==
    {ClientError, Http(200, Unparsable), Http(500, Json(ErrorBody(ex)))}
    \cup (IF ex = "coinbase" THEN {} ELSE {Http(200, Json(ErrorBody(ex)))})

EntryInit == Init /\ credentials = NoCredentials

(* async with Client() as client: __aenter__ is create_session *)
__aenter__ ==
    /\ entry.pc = "idle"
    /\ session' = IF session = 0 THEN created + 1 ELSE session
    /\ created' = IF session = 0 THEN created + 1 ELSE created
    /\ entry' = [entry EXCEPT !.pc = "get_trading_pairs"]
    /\ UNCHANGED <<config, probe, clock, last_request_time, semaphore, lock,
                   closed, owner, closes, call, task, passes>>

(* trading_pairs = await client.get_trading_pairs(): the one request of    *)
(* the client so far waits out the rate limit alone, is sent on the open   *)
(* session and ends with resp; the listing is parsed                       *)
EntryListing(resp) ==
    /\ entry.pc = "get_trading_pairs"
    /\ LET current_time == clock
           time_since_last_request == current_time - last_request_time
           now == IF time_since_last_request < RateLimit
                  THEN current_time + (RateLimit - time_since_last_request)
                  ELSE current_time
           made == HandleResponse(exchange, resp)
           out == IF made.kind = "raise" THEN made
                  ELSE ParseTradingPairs(exchange, made.value)
       IN  /\ clock' = now
           /\ last_request_time' = now
           /\ passes' = passes + 1
           /\ entry' = IF out.kind = "return"
                       THEN [entry EXCEPT
                               !.pc = "get_all_orderbooks",
                               !.pairs = [i \in DOMAIN out.value |->
                                            out.value[i].symbol]]
                       ELSE [entry EXCEPT
                               !.pc = "__aexit__",
                               !.raised = out,
                               !.out = ExceptClause(exchange, out)]
    /\ UNCHANGED <<config, probe, semaphore, lock, session, closed, created,
                   owner, closes, call, task>>

get_trading_pairs_fails(resp) == EntryListing(resp)

get_trading_pairs_answered(listing) ==
    EntryListing(Http(200, Json(ListingBody(exchange, listing))))

(* order_books = await client.get_all_orderbooks(trading_pairs) *)
EntryCall ==
    /\ entry.pc = "get_all_orderbooks"
    /\ get_all_orderbooks(entry.pairs, DefaultLimit(exchange))

(* the call is over: return order_books (or print them), or the except     *)
(* clause                                                                  *)
EntryCallOver ==
    /\ entry.pc = "get_all_orderbooks"
    /\ call.pc \in {"returned", "raised"}
    /\ entry' = IF call.pc = "returned"
                THEN [entry EXCEPT !.pc = "__aexit__",
                                   !.out = Returned(exchange, call.result.value)]
                ELSE [entry EXCEPT !.pc = "__aexit__",
                                   !.raised = call.result,
                                   !.out = ExceptClause(exchange, call.result)]
    /\ UNCHANGED <<config, probe, clock, last_request_time, semaphore, lock,
                   session, closed, created, owner, closes, call, task, passes>>

(* __aexit__ is close_session: if self._session: await self._session.close() *)
__aexit__ ==
    /\ entry.pc = "__aexit__"
    /\ IF session # 0
       THEN /\ closed' = closed \cup {session}
            /\ entry' = [entry EXCEPT !.pc = "closing"]
       ELSE /\ closed' = closed
            /\ entry' = [entry EXCEPT !.pc = "exited", !.session = session]
    /\ UNCHANGED <<config, probe, clock, last_request_time, semaphore, lock,
                   session, created, owner, closes, call, task, passes>>

(* self._session = None, and the function is left *)
EntryExit ==
    /\ entry.pc = "closing"
    /\ session' = 0
    /\ entry' = [entry EXCEPT !.pc = "exited", !.session = 0]
    /\ UNCHANGED <<config, probe, clock, last_request_time, semaphore, lock,
                   closed, created, owner, closes, call, task, passes>>

EntryNext ==
    \/ __aenter__
    \/ \E resp \in ListingFailures(exchange) : get_trading_pairs_fails(resp)
    \/ \E listing \in Listings(exchange) : get_trading_pairs_answered(listing)
    \/ EntryCall
    \/ Run
    \/ Tick
    \/ EntryCallOver
    \/ __aexit__
    \/ EntryExit

EntrySpec == EntryInit /\ [][EntryNext]_vars

(***************************************************************************)
(*                              Properties                                 *)
(***************************************************************************)
Done(t) == task[t].pc = "done"
Succeeded(t) == Done(t) /\ task[t].res.kind = "return"
Failed(t) == Done(t) /\ task[t].res.kind = "raise"
FailedWithApiException(t) ==
    Failed(t) /\ task[t].res.cls = ApiException(exchange)
AllDone == \A t \in Launched : Done(t)
DistinctSymbols ==
    \A i, j \in Launched : call.pairs[i] = call.pairs[j] => i = j
Carries(msg, piece) == \E i \in DOMAIN msg : msg[i] = piece

(* the tasks that hold a permit of the semaphore *)
PastSemaphore == {t \in Tasks : task[t].pc \in {"lock", "sleep", "http"}}

(***************************************************************************)
(* C1.  At most max_concurrent_requests calls of _make_request are past    *)
(* the semaphore (waiting for the lock, sleeping in the rate limiter, or   *)
(* in the HTTP exchange) in any reachable state, and the free permits are  *)
(* exactly the rest.                                                       *)
(***************************************************************************)
C1_BoundedConcurrency ==
    /\ Cardinality(PastSemaphore) <= max_concurrent_requests
    /\ semaphore = max_concurrent_requests - Cardinality(PastSemaphore)

(* the cap is reached while another call waits at the semaphore *)
C1_Witness ==
    /\ Cardinality(PastSemaphore) = max_concurrent_requests
    /\ \E t \in Tasks : task[t].pc = "semaphore"

(***************************************************************************)
(* C2.  Every assignment to _last_request_time writes a value at least     *)
(* rate_limit above the value it replaces.                                 *)
(***************************************************************************)
C2_MinimumSpacing ==
    [][passes' # passes =>
          last_request_time' - last_request_time >= RateLimit]_vars

(* two requests have passed the gate, the second after a sleep *)
C2_Witness ==
    /\ passes = 2
    /\ last_request_time >= 2 * RateLimit

(***************************************************************************)
(* C3.  When K requests have passed the rate-limit gate, at least          *)
(* (K - 1) * rate_limit has passed on the clock since get_all_orderbooks   *)
(* was called, on a client built with _last_request_time = 0.              *)
(***************************************************************************)
C3_TotalTime ==
    passes >= 1 => last_request_time - call.t0 >= (passes - 1) * RateLimit

(* K = 2 requests took exactly (K - 1) * rate_limit *)
C3_Witness ==
    /\ passes = 2
    /\ last_request_time - call.t0 = RateLimit

(***************************************************************************)
(* C4, as claimed.  With distinct symbols, once the call is over: one      *)
(* failed fetch of N leaves a mapping of N - 1 entries without the failed  *)
(* symbol, N failed fetches leave an empty mapping and no exception,       *)
(* however the fetch failed.                                               *)
(***************************************************************************)
C4_Original ==
    (call.pc \in {"returned", "raised"} /\ AllDone /\ DistinctSymbols) =>
        LET failed == {t \in Launched : Failed(t)}
        IN  /\ Cardinality(failed) = 1 =>
                  /\ call.pc = "returned"
                  /\ Cardinality(DOMAIN call.result.value) = Len(call.pairs) - 1
                  /\ \A t \in failed : call.pairs[t] \notin DOMAIN call.result.value
            /\ (failed = Launched /\ failed # {}) =>
                  /\ call.pc = "returned"
                  /\ DOMAIN call.result.value = {}

(***************************************************************************)
(* C4, amended.  The same for the fetches that fail with the client's own  *)
(* exception (invalid limit, transport error, non-200 status, unparsable   *)
(* body, Bybit's retCode); a fetch that fails with any other exception (a  *)
(* KeyError on a 200 response without the expected fields) makes           *)
(* get_all_orderbooks raise that exception and return no mapping.          *)
(***************************************************************************)
C4_Amended ==
    (call.pc \in {"returned", "raised"} /\ AllDone /\ DistinctSymbols) =>
        LET failed == {t \in Launched : Failed(t)}
            caught == {t \in Launched : FailedWithApiException(t)}
        IN  IF failed = caught
            THEN /\ call.pc = "returned"
                 /\ Cardinality(failed) = 1 =>
                       /\ Cardinality(DOMAIN call.result.value)
                             = Len(call.pairs) - 1
                       /\ \A t \in failed :
                             call.pairs[t] \notin DOMAIN call.result.value
                 /\ failed = Launched => DOMAIN call.result.value = {}
            ELSE /\ call.pc = "raised"
                 /\ \E t \in failed \ caught : call.result = task[t].res

(* two pairs, one fetch failed with the client's exception, one entry *)
C4_Witness ==
    /\ call.pc = "returned"
    /\ Len(call.pairs) = 2
    /\ DistinctSymbols
    /\ Cardinality({t \in Launched : FailedWithApiException(t)}) = 1
    /\ Cardinality(DOMAIN call.result.value) = 1

(***************************************************************************)
(* C5, as claimed.  The mapping returned has exactly the symbols of the    *)
(* succeeded fetches as keys, each mapped to the OrderBook its fetch       *)
(* returned; no symbol of a failed fetch and none outside the list is a    *)
(* key.                                                                    *)
(***************************************************************************)
C5_Original ==
    call.pc = "returned" =>
        LET mapping == call.result.value
        IN  /\ DOMAIN mapping = {call.pairs[t] : t \in {u \in Launched : Succeeded(u)}}
            /\ \A t \in Launched :
                  Succeeded(t) => mapping[call.pairs[t]] = task[t].res.value
            /\ \A t \in Launched :
                  Failed(t) => call.pairs[t] \notin DOMAIN mapping
            /\ DOMAIN mapping \subseteq {call.pairs[t] : t \in Launched}

(***************************************************************************)
(* C5, amended.  The keys are exactly the symbols with at least one        *)
(* succeeded fetch, all of them symbols of the list; each is mapped to the *)
(* OrderBook of the last pair of the list with that symbol whose fetch     *)
(* succeeded.  A symbol listed once is a key iff its fetch succeeded.      *)
(***************************************************************************)
C5_Amended ==
    call.pc = "returned" =>
        LET mapping == call.result.value
            ok == {t \in Launched : Succeeded(t)}
        IN  /\ DOMAIN mapping = {call.pairs[t] : t \in ok}
            /\ DOMAIN mapping \subseteq {call.pairs[t] : t \in Launched}
            /\ \A t \in ok :
                  (\A u \in ok : call.pairs[u] = call.pairs[t] => u <= t)
                     => mapping[call.pairs[t]] = task[t].res.value
            /\ \A t \in Launched :
                  (Failed(t) /\ call.pairs[t] \in DOMAIN mapping)
                     => \E u \in ok : u # t /\ call.pairs[u] = call.pairs[t]

(* a symbol listed twice, both fetches succeeded with different books *)
C5_Witness ==
    /\ call.pc = "returned"
    /\ Len(call.pairs) = 2
    /\ call.pairs[1] = call.pairs[2]
    /\ Succeeded(1) /\ Succeeded(2)
    /\ task[1].res.value # task[2].res.value
    /\ call.result.value[call.pairs[1]] = task[2].res.value

(***************************************************************************)
(* C6.  A get_orderbook call whose limit lies outside the exchange's       *)
(* allowed set (BingX {5,10,20,50,100,500,1000}; Bybit {1,25,50,100,200};  *)
(* Bitget 1..150; Coinbase 1..50) ends in its first step with the          *)
(* exchange's API exception: that step takes no permit and no lock, leaves *)
(* _last_request_time and the session as they are, creates no session and *)
(* sends nothing.                                                          *)
(***************************************************************************)
AllowedLimits(ex) ==
    CASE ex = "bingx" -> {5, 10, 20, 50, 100, 500, 1000}
      [] ex = "bybit" -> {1, 25, 50, 100, 200}
      [] ex = "bitget" -> 1..150
      [] ex = "coinbase" -> 1..50

C6_InvalidLimitRaisesFirst ==
    [][\A t \in Tasks :
          (/\ task[t].pc = "start"
           /\ task'[t] # task[t]
           /\ call.limit \notin AllowedLimits(exchange)) =>
             /\ task'[t].pc = "done"
             /\ task'[t].res.kind = "raise"
             /\ task'[t].res.cls = ApiException(exchange)
             /\ task'[t].req = None
             /\ task'[t].resp = None
             /\ UNCHANGED <<semaphore, lock, last_request_time, passes,
                            session, created, closed>>]_vars

(* a call with an invalid limit has raised; nothing else has moved *)
C6_Witness ==
    \E t \in Tasks :
        /\ call.limit \notin AllowedLimits(exchange)
        /\ Failed(t)
        /\ task[t].res.cls = ApiException(exchange)
        /\ semaphore = max_concurrent_requests
        /\ passes = 0
        /\ created = 0

(***************************************************************************)
(* C7, as claimed.  A get_orderbook that returns, returns at most limit    *)
(* levels a side, however many the server sent.                            *)
(***************************************************************************)
C7_AtMostLimitLevels ==
    \A t \in Tasks :
        Succeeded(t) =>
            /\ Len(task[t].res.value.bids) <= call.limit
            /\ Len(task[t].res.value.asks) <= call.limit

(***************************************************************************)
(* C8.  A request is handed to a session that exists and whose close() has *)
(* not run; when _session is None at that moment (never created, or        *)
(* close_session has completed) the session is a new one, created in the   *)
(* same step, and becomes _session.                                        *)
(***************************************************************************)
C8_SessionLifecycle ==
    [][\A t \in Tasks :
          (task[t].pc # "http" /\ task'[t].pc = "http") =>
             LET sid == task'[t].req.sid
             IN  /\ sid # 0
                 /\ sid \notin closed
                 /\ session' = sid
                 /\ session = 0 => (sid \notin 1..created /\ created' = created + 1)
                 /\ session # 0 => (sid = session /\ created' = created)]_vars

(* a request in flight on the session created after close_session ended *)
C8_Witness ==
    \E t \in Tasks :
        /\ task[t].pc = "http"
        /\ closed = {1}
        /\ owner = "idle"
        /\ task[t].req.sid = 2
        /\ session = 2

(***************************************************************************)
(* C9.  A request sent with credentials was signed once, and the signature *)
(* it carries is the HMAC, under the secret, of the canonical string built *)
(* from the parameters and the timestamp it transmits (BingX: the          *)
(* url-encoded sorted query without the signature, the timestamp among     *)
(* its parameters; the others: the timestamp header followed by the joined *)
(* sorted query).  A request sent without credentials was not signed and   *)
(* carries no header and no signature.                                     *)
(***************************************************************************)
(* d[k], and d without k, for reading a request back *)
DictGet(d, k) == LET i == CHOOSE j \in DOMAIN d : d[j][1] = k IN d[i][2]

DictDel(d, k) == SelectSeq(d, LAMBDA kv : kv[1] # k)

TransmittedSignature(ex, r) ==
    IF ex = "bingx" THEN DictGet(r.query.items, "signature")
    ELSE DictGet(r.headers, SignHeader(ex))

TransmittedTimestamp(ex, r) ==
    IF ex = "bingx" THEN DictGet(r.query.items, "timestamp")
    ELSE DictGet(r.headers, TimestampHeader(ex))

CanonicalString(ex, r) ==
    IF ex = "bingx"
    THEN UrlEncode(SortedItems(
            DictSet(DictDel(r.query.items, "signature"), "timestamp",
                    TransmittedTimestamp(ex, r))))
    ELSE TransmittedTimestamp(ex, r) \o JoinKeyValue(SortedItems(OrEmpty(r.query)))

C9_OneSignatureSameTimestamp ==
    \A t \in Tasks :
        task[t].pc = "http" =>
            LET r == task[t].req.http
            IN  IF credentials.present
                THEN /\ r.nsign = 1
                     /\ TransmittedSignature(exchange, r)
                           = Hmac(credentials.api_secret,
                                  CanonicalString(exchange, r))
                ELSE /\ r.nsign = 0
                     /\ r.headers = EmptyDict
                     /\ "signature" \notin DictKeys(OrEmpty(r.query))

(* signed requests in flight: one of a timestamp-prefix client *)
C9_Witness ==
    \E t \in Tasks :
        /\ task[t].pc = "http"
        /\ credentials.present
        /\ exchange = "bitget"
        /\ task[t].req.http.nsign = 1

(***************************************************************************)
(* C10, as claimed.  A failed HTTP exchange (transport failure, non-200    *)
(* status, body that is not JSON, Bybit's retCode) reaches the caller as   *)
(* the exchange's API exception, and on a non-200 status the message       *)
(* carries the status code.                                                *)
(***************************************************************************)
ExchangeFailed(ex, resp) ==
    \/ resp.kind = "client_error"
    \/ /\ resp.kind = "http"
       /\ \/ resp.status # 200
          \/ resp.body.kind # "json"
          \/ ex = "bybit" /\ resp.body.obj.retCode # 0

C10_Original ==
    \A t \in Tasks :
        (Done(t) /\ task[t].resp # None /\ ExchangeFailed(exchange, task[t].resp)) =>
            /\ task[t].res.kind = "raise"
            /\ task[t].res.cls = ApiException(exchange)
            /\ (task[t].resp.kind = "http" /\ task[t].resp.status # 200) =>
                  Carries(task[t].res.msg, ToString(task[t].resp.status))

(***************************************************************************)
(* C10, amended.  Every such failure reaches the caller as the exchange's  *)
(* API exception.  On a non-200 status the message carries the status code *)
(* for BingX, Bitget and Coinbase; Bybit, when the body is JSON, puts the  *)
(* body's retMsg ("Unknown error" without one) in the message instead.     *)
(***************************************************************************)
C10_Amended ==
    \A t \in Tasks :
        (Done(t) /\ task[t].resp # None /\ ExchangeFailed(exchange, task[t].resp)) =>
            /\ task[t].res.kind = "raise"
            /\ task[t].res.cls = ApiException(exchange)
            /\ (task[t].resp.kind = "http" /\ task[t].resp.status # 200) =>
                  IF exchange # "bybit"
                  THEN Carries(task[t].res.msg, ToString(task[t].resp.status))
                  ELSE task[t].resp.body.kind = "json" =>
                          Carries(task[t].res.msg,
                                  Get(task[t].resp.body.obj, "retMsg",
                                      "Unknown error"))

(* a Bybit call answered 500 with a JSON body has raised with its retMsg *)
C10_Witness ==
    \E t \in Tasks :
        /\ Done(t)
        /\ exchange = "bybit"
        /\ task[t].resp.kind = "http"
        /\ task[t].resp.status = 500
        /\ task[t].res.cls = ApiException(exchange)
        /\ Carries(task[t].res.msg, "params error")

(***************************************************************************)
(* C11.  No retry: a get_orderbook call makes at most one _make_request    *)
(* call and that call hands at most one request to the session; the step   *)
(* that ends an HTTP exchange ends get_orderbook, and when the exchange    *)
(* failed it ends it with an exception, the task sending nothing more.     *)
(***************************************************************************)
C11_NoRetry ==
    /\ [](\A t \in Tasks :
            /\ task[t].calls <= 1
            /\ task[t].sends <= task[t].calls)
    /\ [][\A t \in Tasks :
             (task[t].pc = "http" /\ task'[t] # task[t]) =>
                /\ task'[t].pc = "done"
                /\ task'[t].sends = 1
                /\ ExchangeFailed(exchange, task'[t].resp) =>
                      task'[t].res.kind = "raise"]_vars

(* a request was sent once, the exchange failed, the call has raised *)
C11_Witness ==
    \E t \in Tasks :
        /\ Failed(t)
        /\ task[t].sends = 1
        /\ task[t].resp # None
        /\ ExchangeFailed(exchange, task[t].resp)

(***************************************************************************)
(* C12.  A fetch that raises an exception other than the exchange's API    *)
(* exception (the KeyError of a response without an expected field) is not *)
(* recovered from: get_all_orderbooks never returns a mapping once a fetch *)
(* of the call has ended that way, whatever the other fetches did, and     *)
(* what it raises is the exception of such a fetch.                        *)
(***************************************************************************)
FailedWithOtherException(t) ==
    Failed(t) /\ task[t].res.cls # ApiException(exchange)

C12_OtherExceptionPropagates ==
    /\ call.pc = "returned" =>
          \A t \in Launched : ~FailedWithOtherException(t)
    /\ call.pc = "raised" =>
          /\ call.result.kind = "raise"
          /\ \E t \in Launched :
                FailedWithOtherException(t) /\ call.result = task[t].res

(* one fetch succeeded, the other raised KeyError, the call raised KeyError *)
C12_Witness ==
    /\ call.pc = "raised"
    /\ Len(call.pairs) = 2
    /\ \E t, u \in Launched :
          /\ Succeeded(t)
          /\ FailedWithOtherException(u)
          /\ task[u].res.cls = "KeyError"
          /\ call.result = task[u].res

(***************************************************************************)
(* C13, as claimed.  When get_all_orderbooks has returned or raised to its *)
(* caller, every fetch it launched has finished (returned or raised).      *)
(***************************************************************************)
C13_AllFinishedAtReturn ==
    call.pc \in {"returned", "raised"} => AllDone

(***************************************************************************)
(* C14, as claimed.  Every client sends a timestamp parameter on every     *)
(* call of _make_request; a GET request carries all the parameters in the  *)
(* query string and no JSON body; any other method carries them as the     *)
(* JSON body.                                                              *)
(***************************************************************************)
SentParams(r) == IF r.query # None THEN r.query ELSE r.json

C14_Original ==
    probe.op = "_make_request" =>
        LET r == probe.out
        IN  /\ "timestamp" \in DictKeys(OrEmpty(SentParams(r)))
            /\ DictKeys(OrEmpty(probe.params))
                  \subseteq DictKeys(OrEmpty(SentParams(r)))
            /\ probe.method = "GET" => (r.json = None /\ r.query # None)
            /\ probe.method # "GET" => (r.query = None /\ r.json # None)

(***************************************************************************)
(* C14, amended.  BingX sends, on every call, the caller's parameters with *)
(* a millisecond timestamp parameter added (and the signature with         *)
(* credentials): in the query string with no JSON body for GET, as the     *)
(* JSON body otherwise.  Bitget, Bybit and Coinbase add no parameter: the  *)
(* caller's parameters go in the query string with no JSON body for a GET  *)
(* with at least one parameter, and are otherwise passed unchanged as the  *)
(* JSON body (None, so no body, when the caller gave none; the empty dict  *)
(* of a GET called with one).                                              *)
(***************************************************************************)
C14_Amended ==
    probe.op = "_make_request" =>
        LET r == probe.out
            given == OrEmpty(probe.params)
        IN  IF exchange = "bingx"
            THEN LET sent == SentParams(r)
                 IN  /\ sent.kind = "dict"
                     /\ DictKeys(sent.items) =
                           DictKeys(given) \cup {"timestamp"}
                           \cup (IF credentials.present THEN {"signature"}
                                 ELSE {})
                     /\ DictGet(sent.items, "timestamp") = TimestampMs(clock)
                     /\ \A i \in DOMAIN given :
                           DictGet(sent.items, given[i][1]) = given[i][2]
                     /\ probe.method = "GET" => (r.query = sent /\ r.json = None)
                     /\ probe.method # "GET" => (r.json = sent /\ r.query = None)
            ELSE /\ "timestamp" \notin DictKeys(OrEmpty(r.query))
                                        \cup DictKeys(OrEmpty(r.json))
                 /\ IF probe.method = "GET" /\ given # EmptyDict
                    THEN r.query = probe.params /\ r.json = None
                    ELSE r.query = None /\ r.json = probe.params

(* a Bitget GET with parameters: they are in the query, none is a timestamp *)
C14_Witness ==
    /\ probe.op = "_make_request"
    /\ exchange = "bitget"
    /\ probe.method = "GET"
    /\ probe.params = Dict(<< <<"symbol", "BTCUSDT">> >>)
    /\ probe.out.query = probe.params

(***************************************************************************)
(* C15, as claimed.  The dict a caller passes to _make_request holds,      *)
(* after the call, exactly the keys and values it held before: no          *)
(* timestamp and no signature entry has been added to it.                  *)
(***************************************************************************)
C15_CallerParamsUnchanged ==
    probe.op = "_make_request" => probe.out.caller = probe.params

(***************************************************************************)
(* C16.  Signature determinism, for a client with credentials and two      *)
(* calls of the signer.  When the two dicts hold the same entries (in any  *)
(* insertion order) and the two calls use the same timestamp, the two      *)
(* signatures are equal.  When the dicts have the same keys and differ in  *)
(* the value of exactly one, and the timestamp is the same, the signatures *)
(* differ.  BingX takes no timestamp of its own; the other clients read it *)
(* from the clock, so the timestamp is the same when the clock reads the   *)
(* same at both calls.                                                     *)
(***************************************************************************)
Entries(d) == {d[i] : i \in DOMAIN d}

OneValueChanged(d, e) ==
    /\ DictKeys(d) = DictKeys(e)
    /\ Cardinality({k \in DictKeys(d) : DictGet(d, k) # DictGet(e, k)}) = 1

C16_SignatureDeterminism ==
    (probe.op = "_generate_signature" /\ credentials.present) =>
        LET first == probe.out[1].value
            second == probe.out[2].value
            sameTime == IF exchange = "bingx" THEN TRUE
                        ELSE first.timestamp = second.timestamp
        IN  /\ exchange # "bingx" =>
                  (first.timestamp = second.timestamp
                      <=> probe.now[1] = probe.now[2])
            /\ (Entries(probe.params[1]) = Entries(probe.params[2]) /\ sameTime)
                  => first.signature = second.signature
            /\ (OneValueChanged(probe.params[1], probe.params[2]) /\ sameTime)
                  => first.signature # second.signature

(* the same entries inserted in a different order, signed at the same *)
(* clock reading by a timestamp-prefix client: one signature              *)
C16_Witness ==
    /\ probe.op = "_generate_signature"
    /\ credentials.present
    /\ exchange = "bybit"
    /\ probe.params[1] # probe.params[2]
    /\ Entries(probe.params[1]) = Entries(probe.params[2])
    /\ probe.now[1] = probe.now[2]
    /\ probe.out[1].value.signature = probe.out[2].value.signature

(***************************************************************************)
(* C17, as claimed.  get_trading_pairs returns exactly the symbols of the  *)
(* listed pairs whose status matches the exchange's sentinel (BingX 1;     *)
(* Bitget and Coinbase "online", Bybit "trading", whatever the case of the *)
(* letters), in listing order, and leaves every other pair out, a pair     *)
(* with another status or with no status included.                         *)
(***************************************************************************)
MatchesSentinel(ex, pair) ==
    /\ "status" \in DOMAIN pair
    /\ IsString(pair.status) = IsString(ActiveSentinel(ex))
    /\ IF IsString(pair.status)
       THEN Lower(pair.status.str) = ActiveSentinel(ex).str
       ELSE pair.status.int = ActiveSentinel(ex).int

C17_ExactlyActivePairs ==
    probe.op = "get_trading_pairs" =>
        LET kept == SelectSeq(probe.listing,
                              LAMBDA pair : MatchesSentinel(exchange, pair))
        IN  probe.out =
              Return([i \in DOMAIN kept |->
                        TradingPair(kept[i][SymbolKey(exchange)])])

(***************************************************************************)
(* C18.  On a client built without credentials the signer, when called,    *)
(* raises the exchange's API exception ("API credentials required ...")   *)
(* and returns no signature; _make_request on such a client does not call  *)
(* the signer, attaches no header, and does not fail with that exception.  *)
(***************************************************************************)
C18_SignerNeedsCredentials ==
    ~credentials.present =>
        /\ probe.op = "_generate_signature" =>
              \A i \in DOMAIN probe.out :
                 probe.out[i] =
                    Raise(ApiException(exchange),
                          <<"API credentials required for authenticated requests">>)
        /\ probe.op = "_make_request" =>
              /\ probe.out.nsign = 0
              /\ probe.out.error = None
              /\ probe.out.headers = EmptyDict

(* the signer called on a client without credentials has raised *)
C18_Witness ==
    /\ ~credentials.present
    /\ probe.op = "_generate_signature"
    /\ probe.out[1].kind = "raise"
    /\ probe.out[1].cls = ApiException(exchange)

(***************************************************************************)
(* C19.  _last_request_time is written only under _request_lock.  At most  *)
(* one task is inside the "async with self._request_lock" block, and it is *)
(* the holder of the lock.  A step that writes _last_request_time is the   *)
(* step of one task leaving that block (entered in the same step when no   *)
(* sleep is needed, the lock being free), no other task holding the lock;  *)
(* every other step (validation failure, session create and close, the     *)
(* HTTP exchange and its errors, gather) leaves _last_request_time as it   *)
(* is.                                                                     *)
(***************************************************************************)
InsideLock == {t \in Tasks : task[t].pc = "sleep"}

C19_WrittenUnderLock ==
    /\ [](/\ Cardinality(InsideLock) <= 1
          /\ lock = 0 => InsideLock = {}
          /\ lock # 0 => InsideLock = {lock})
    /\ [][(last_request_time' # last_request_time \/ passes' # passes) =>
             \E t \in Tasks :
                /\ \/ task[t].pc = "sleep" /\ lock = t
                   \/ task[t].pc = "lock" /\ lock = 0
                /\ task'[t].pc \in {"http", "done"}
                /\ lock' = 0
                /\ passes' = passes + 1
                /\ \A u \in Tasks \ {t} : task'[u] = task[u]]_vars

(* one task has written the timestamp and is in its HTTP exchange, the *)
(* next one sleeps holding the lock                                        *)
C19_Witness ==
    /\ passes = 1
    /\ last_request_time > 0
    /\ \E t, u \in Tasks :
          /\ task[t].pc = "http"
          /\ task[u].pc = "sleep"
          /\ lock = u

(***************************************************************************)
(* C20.  _request_lock is released before the HTTP send: no task holds it  *)
(* while in its HTTP exchange or after, and it is free as soon as a task   *)
(* has written _last_request_time.  So requests overlap: up to the         *)
(* semaphore cap are in the HTTP exchange together, the later one having   *)
(* passed its minimum-interval check while the earlier had not completed.  *)
(***************************************************************************)
InExchange == {t \in Tasks : task[t].pc = "http"}

C20_LockReleasedBeforeSend ==
    /\ [](\A t \in Tasks : task[t].pc \in {"http", "done"} => lock # t)
    /\ [][passes' # passes => lock' = 0]_vars

(* two requests in the HTTP exchange at once, the second having passed *)
(* the rate limiter, rate_limit later, with the first still unanswered     *)
C20_Witness ==
    /\ Cardinality(InExchange) = 2
    /\ max_concurrent_requests = 2
    /\ passes = 2
    /\ last_request_time - call.t0 >= RateLimit
    /\ \A t \in InExchange : task[t].resp = None

(***************************************************************************)
(* C21, as claimed.  Whatever close_session does meanwhile, a request that *)
(* finds _session not None when it leaves the rate limiter is sent, and on *)
(* a session whose close() has not run.                                    *)
(***************************************************************************)
C21_NonNoneSessionIsOpen ==
    [][\A t \in Tasks :
          (/\ task[t].pc \in {"lock", "sleep"}
           /\ task'[t].pc \in {"http", "done"}
           /\ session # 0) =>
             /\ task'[t].pc = "http"
             /\ task'[t].req.sid = session
             /\ task'[t].req.sid \notin closed]_vars

(***************************************************************************)
(* C22.  At most one session is open at a time and it is _session: every   *)
(* session ever created, other than the current _session, has been closed. *)
(* A session is created only when _session is None and becomes _session.   *)
(* So, as long as close_session has not been called, the requests issued   *)
(* concurrently on a client without a session create one session between   *)
(* them and all send on it.                                                *)
(***************************************************************************)
C22_OneSessionCreated ==
    /\ [](\A sid \in 1..created : sid # session => sid \in closed)
    /\ [](closes = 0 =>
            /\ created <= 1
            /\ \A t \in Tasks :
                  task[t].pc = "http" => task[t].req.sid = 1 /\ session = 1)
    /\ [][created' # created =>
             /\ session = 0
             /\ created' = created + 1
             /\ session' = created']_vars

(* two requests in flight at once on the one session ever created *)
C22_Witness ==
    /\ created = 1
    /\ closes = 0
    /\ session = 1
    /\ Cardinality(InExchange) = 2
    /\ \A t \in InExchange : task[t].req.sid = 1

(***************************************************************************)
(* C23.  Every way out of _make_request gives back the permit it took and  *)
(* leaves _request_lock free: whenever no request of the client is         *)
(* outstanding (none waits for the semaphore or the lock, sleeps or is in  *)
(* its HTTP exchange), the semaphore has all max_concurrent_requests       *)
(* permits and the lock is unheld, however the requests ended.             *)
(***************************************************************************)
Outstanding ==
    {t \in Tasks : task[t].pc \in {"semaphore", "lock", "sleep", "http"}}

C23_PermitsAndLockReleased ==
    Outstanding = {} =>
        /\ semaphore = max_concurrent_requests
        /\ lock = 0

(* two requests are over, one returned, one failed in its HTTP exchange *)
C23_Witness ==
    /\ Outstanding = {}
    /\ \E t, u \in Tasks :
          /\ Succeeded(t)
          /\ FailedWithApiException(u)
          /\ task[u].sends = 1
    /\ semaphore = max_concurrent_requests
    /\ lock = 0

(***************************************************************************)
(* C24.  Progress, under fair scheduling.  Every _make_request call that   *)
(* waits for the semaphore gets it, gets the lock, and returns or raises;  *)
(* every get_all_orderbooks call returns or raises, on lists longer than   *)
(* max_concurrent_requests too.  A request, once over, stays over, and so  *)
(* does a call: each of them ends exactly when, again and again, no        *)
(* request is outstanding and no call is waiting for its tasks.            *)
(***************************************************************************)
C24_Progress ==
    /\ []<>(Outstanding = {})
    /\ []<>(call.pc # "gathering")

(* a list of two pairs on a client with one permit has returned, both      *)
(* requests having gone through the semaphore and the lock                 *)
C24_Witness ==
    /\ max_concurrent_requests = 1
    /\ Len(call.pairs) = 2
    /\ call.pc = "returned"
    /\ passes = 2
    /\ \A t \in Launched : task[t].sends = 1


(***************************************************************************)
(* C25.  When an entry function of client_side.py has exited: if an API    *)
(* exception of its exchange's client was raised by get_trading_pairs or   *)
(* get_all_orderbooks, the function caught it and returned; and _session   *)
(* was None as it exited, however it exited.                               *)
(***************************************************************************)
C25_CaughtAndClosed ==
    entry.pc = "exited" =>
        /\ (entry.raised # None /\ entry.raised.cls = ApiException(exchange))
              => entry.out.kind = "return"
        /\ entry.session = 0

=============================================================================
